---- MODULE Spec2Model ----
(***************************************************************************)
(* Model of the system-monitor server: the MetricsStorage history ring     *)
(* (internal/storage/storage.go), the hub goroutine Server.run, the        *)
(* connection handler Server.handleWebSocket and the collection loop       *)
(* Server.startMetricsCollection (main.go).                                *)
(*                                                                         *)
(* SpecRing drives the ring through its API alone.  Spec is the running    *)
(* server: hub, collection loop, connection handlers and their peers.      *)
(* FairSpec is Spec with the scheduling the Go runtime guarantees.         *)
(* SpecLock is the ring under its RWMutex with one writer and two readers, *)
(* SpecCopy the ring with consumers that write to what they were returned, *)
(* SpecShutdown is Spec with main's shutdown path, and SpecSource the      *)
(* collection loop over a Collect that may return an error.                *)
(* FairSpecTicks follows the loop against elapsing intervals, SpecPull     *)
(* adds the /api/metrics and /api/history handlers, SpecCollect the        *)
(* sub-collectors of Collector.Collect, SpecStart the loop's start under   *)
(* any -interval flag, and FairSpecWrites is the serving hub whose writes  *)
(* return.  FairSpecChannels is the serving hub with a fair select, and    *)
(* SpecCollector the shared Collector called from two goroutines.          *)
(***************************************************************************)
EXTENDS Integers, Sequences, FiniteSets, TLC

\* ---------------------------------------------------------------- bounds
\* Largest -history flag / NewMetricsStorage argument tried (besides <= 0).
MaxHistory == 2
\* Samples the collector takes at most in one run (Timestamps 1..MaxSamples).
MaxSamples == 3
\* Add calls the ring driver of SpecRing makes at most.
MaxAdds == 4

\* NewMetricsStorage: "Default to 60 data points".
DefaultSize == 60

\* The WebSocket connections that arrive, numbered in order of arrival.
Conns == {1, 2}
Stamps == 1..MaxSamples

\* models.SystemMetrics: a snapshot is identified by its Timestamp.
SystemMetrics(t) == [Timestamp |-> t]
Snapshots == {SystemMetrics(t) : t \in Stamps}

Min(a, b) == IF a < b THEN a ELSE b

\* ----------------------------------------------------------------- state
VARIABLES
    maxSize,    \* MetricsStorage.maxSize
    metrics,    \* MetricsStorage.metrics, oldest first
    added,      \* history: every snapshot passed to Add since construction / Clear
    ret,        \* ring driver: the last call made and the value it returned
    newArg,     \* history: the argument NewMetricsStorage was called with
    cleared,    \* history: a Clear call has removed entries from the ring
    clients,    \* Server.clients: the connections mapped in the hub's map
    hubPc,      \* Server.run: "off" | "select" | "replay" | "fanout"
    hubClient,  \* register case: the client being replayed to (0: none)
    hubHist,    \* register case: the part of the history copy not yet written
    hubMetric,  \* broadcast case: the snapshot received from s.broadcast
    hubTodo,    \* broadcast case: the clients the range has not yet visited, in order
    hubRange,   \* history: the clients that were mapped when the range began
    regRing,    \* history, per connection: the ring when its registration was handled
    hPc,        \* handleWebSocket per connection: "idle" | "sendRegister" |
                \*   "reading" | "sendUnregister" | "done"
    closed,     \* per connection: number of Close() calls the server made on it
    wrote,      \* history, per connection: the WriteJSON calls the hub made on it
    loopPc,     \* startMetricsCollection: "start" | "panic" | "select" | "collect" |
                \*   "send" | "done"
    loopMetric, \* the snapshot the loop holds (Timestamp 0: none)
    clock,      \* number of Collect calls the loop has started
    tickReady,  \* ticker.C holds a tick (the channel has a buffer of one)
    cancelled,  \* ctx.Done() is closed
    handed,     \* history: the snapshots the hub accepted from s.broadcast, in order
    collectErrs, \* history: for each Collect call that returned, whether it failed
    stopped,    \* main has returned: the process is gone
    elapsed,    \* history: the ticker periods that have passed since NewTicker
    probe,      \* history: the last Collect call, its failing collectors and its result
    interval,   \* the -interval flag, a time.Duration: negative, zero or positive
    mu,         \* MetricsStorage.mu: [w: a writer holds it, r: number of readers]
    thr,        \* the goroutines of the ring's concurrency test, each at a step
    heap,       \* the backing arrays of the slices inside stored snapshots
    lastCollectTime, \* Collector.lastCollectTime, a time.Time: its words wall and ext
    calls,      \* per goroutine that calls Collect: where it is in the call, and
                \*   the time.Now() it is storing
    timeNow     \* the system clock: the last value time.Now() returned

ringVars == <<maxSize, metrics, added, ret, newArg, cleared>>
hubVars == <<clients, hubPc, hubClient, hubHist, hubMetric, hubTodo, hubRange, regRing>>
connVars == <<hPc, closed, wrote>>
loopVars == <<loopPc, loopMetric, clock, tickReady, cancelled, handed, collectErrs>>
lockVars == <<mu, thr>>
\* What neither the server's goroutines nor the ring's API calls touch.
\* The process around the goroutines: its exit and the passing of time.
procVars == <<stopped, elapsed, probe, interval>>
\* The shared Collector and the goroutines inside its Collect.
collectorVars == <<lastCollectTime, calls, timeNow>>
asideVars == <<procVars, lockVars, heap, collectorVars>>
vars == <<ringVars, hubVars, connVars, loopVars, asideVars>>

NoMetric == SystemMetrics(0)
NoProbe == [failing |-> {}, out |-> [metrics |-> NoMetric, err |-> FALSE]]
NoRet == [op |-> "none", val |-> 0]

\* The goroutines that call s.collector.Collect(): the collection loop and the
\* handler of a GET /api/metrics request.
Collectors == {"loop", "request"}

\* time.Time as Collect stores it: the words wall and ext, both taken from one
\* time.Now() reading t (the third word, loc, is the same pointer in all).
Time(t) == [wall |-> t, ext |-> t]

\* NewCollector: lastCollectTime is time.Now(); nobody is inside Collect.
CollectorIdle ==
    /\ lastCollectTime = Time(0)
    /\ calls = [g \in Collectors |-> [pc |-> "out", now |-> 0]]
    /\ timeNow = 0

\* ------------------------------------------------------------- the ring
\* A plausible slip of NewMetricsStorage: "maxSize < 0" for "maxSize <= 0".
NewMaxSizeNegative(n) == IF n < 0 THEN DefaultSize ELSE n

\* NewMetricsStorage: the capacity a new ring gets for the argument n.
NewMaxSize(n) == IF n <= 0 THEN DefaultSize ELSE n

\* A plausible slip of Add: truncating from the wrong end (keeps the oldest).
AddKeepOldest(ms, cap, metric) ==
    LET app == Append(ms, metric)
    IN  IF Len(app) > cap THEN SubSeq(app, 1, cap) ELSE app

\* MetricsStorage.Add, second statement: "if len(s.metrics) > s.maxSize" keep
\* the last maxSize entries.
Evict(ms, cap) == IF Len(ms) > cap THEN SubSeq(ms, Len(ms) - cap + 1, Len(ms)) ELSE ms

\* MetricsStorage.Add: append, then keep the last maxSize entries.
Add(ms, cap, metric) == Evict(Append(ms, metric), cap)

\* A plausible slip of GetHistory: make([]T, 0, len) before copy, which
\* copies nothing.
GetHistoryEmpty(ms) == <<>>

\* MetricsStorage.GetHistory: a copy of the whole buffer, oldest first.
GetHistory(ms) == [i \in 1..Len(ms) |-> ms[i]]

\* A plausible slip of GetLatest: s.metrics[0], the oldest entry.
GetLatestOldest(ms) == IF Len(ms) = 0 THEN NoMetric ELSE ms[1]

\* MetricsStorage.GetLatest: nil (NoMetric) if empty, else a copy of the last entry.
GetLatest(ms) == IF Len(ms) = 0 THEN NoMetric ELSE ms[Len(ms)]

\* A plausible slip of Clear: s.metrics[:1], which keeps the oldest entry.
ClearKeepsOne(ms) == SubSeq(ms, 1, IF Len(ms) = 0 THEN 0 ELSE 1)

\* MetricsStorage.Clear: s.metrics[:0].
Clear(ms) == SubSeq(ms, 1, 0)

\* MetricsStorage.Size.
Size(ms) == Len(ms)

\* The process runs and no ticker period has passed yet.
ProcIdle ==
    /\ stopped = FALSE
    /\ elapsed = 0
    /\ probe = NoProbe
    /\ interval = 1

\* The process runs, nobody is inside the ring's lock, no snapshot holds a slice.
AsideIdle ==
    /\ ProcIdle
    /\ mu = [w |-> FALSE, r |-> 0]
    /\ thr = <<>>
    /\ heap = <<>>
    /\ CollectorIdle

\* Values of the server's variables while the ring is driven alone.
ServerIdle ==
    /\ clients = {} /\ hubPc = "off" /\ hubClient = 0 /\ hubHist = <<>>
    /\ hubMetric = NoMetric /\ hubTodo = <<>> /\ hubRange = {}
    /\ regRing = [c \in Conns |-> <<>>]
    /\ hPc = [c \in Conns |-> "idle"]
    /\ closed = [c \in Conns |-> 0]
    /\ wrote = [c \in Conns |-> <<>>]
    /\ loopPc = "done" /\ loopMetric = NoMetric /\ clock = 0
    /\ tickReady = FALSE /\ cancelled = FALSE
    /\ handed = <<>> /\ collectErrs = <<>>

\* storage := NewMetricsStorage(n), as the storage tests construct it.
InitRing ==
    /\ newArg \in -1..MaxHistory
    /\ maxSize = NewMaxSize(newArg)
    /\ metrics = <<>>
    /\ added = <<>>
    /\ cleared = FALSE
    /\ ret = NoRet
    /\ ServerIdle
    /\ AsideIdle

RingAdd ==
    /\ Len(added) < MaxAdds
    /\ \E m \in Snapshots :
        /\ metrics' = Add(metrics, maxSize, m)
        /\ added' = Append(added, m)
    /\ ret' = [op |-> "Add", val |-> 0]
    /\ UNCHANGED <<maxSize, newArg, cleared, hubVars, connVars, loopVars, asideVars>>

RingClear ==
    /\ metrics' = Clear(metrics)
    /\ added' = <<>>
    /\ cleared' = (cleared \/ metrics # <<>>)
    /\ ret' = [op |-> "Clear", val |-> 0]
    /\ UNCHANGED <<maxSize, newArg, hubVars, connVars, loopVars, asideVars>>

RingGetHistory ==
    /\ ret' = [op |-> "GetHistory", val |-> GetHistory(metrics)]
    /\ UNCHANGED <<maxSize, metrics, added, newArg, cleared, hubVars, connVars, loopVars, asideVars>>

RingGetLatest ==
    /\ ret' = [op |-> "GetLatest", val |-> GetLatest(metrics)]
    /\ UNCHANGED <<maxSize, metrics, added, newArg, cleared, hubVars, connVars, loopVars, asideVars>>

RingSize ==
    /\ ret' = [op |-> "Size", val |-> Size(metrics)]
    /\ UNCHANGED <<maxSize, metrics, added, newArg, cleared, hubVars, connVars, loopVars, asideVars>>

NextRing ==
    \/ RingAdd
    \/ RingClear
    \/ RingGetHistory
    \/ RingGetLatest
    \/ RingSize

SpecRing == InitRing /\ [][NextRing]_vars

\* ----------------------------------------------- the ring under its lock
\* TestConcurrentAccess: one writer goroutine and the reader goroutines, each
\* call taken apart into the steps between which the others may run.
Readers == {1, 2}
ReadOps == {"GetHistory", "GetLatest", "Size"}
WriteOps == {"Add", "Clear"}

\* sync.RWMutex: Lock waits until no writer and no reader holds the mutex.
CanLock(m) == ~m.w /\ m.r = 0

\* A plausible slip: a read method that takes no lock at all.
CanRLockAlways(m) == TRUE

\* sync.RWMutex: RLock waits only while a writer holds the mutex.
CanRLock(m) == ~m.w

\* What a read method returns from the buffer it sees.
ReadOp(op, ms) ==
    CASE op = "GetHistory" -> GetHistory(ms)
      [] op = "GetLatest" -> GetLatest(ms)
      [] OTHER -> Size(ms)

NoRead == [pc |-> "idle", op |-> "none", val |-> 0, quiet |-> FALSE]

InitLock ==
    /\ newArg \in 0..MaxHistory
    /\ maxSize = NewMaxSize(newArg)
    /\ metrics = <<>>
    /\ added = <<>>
    /\ cleared = FALSE
    /\ ret = NoRet
    /\ ServerIdle
    /\ ProcIdle
    /\ heap = <<>>
    /\ CollectorIdle
    /\ mu = [w |-> FALSE, r |-> 0]
    /\ thr = [w |-> [pc |-> "idle", commit |-> <<>>],
              r |-> [i \in Readers |-> NoRead]]

\* Add / Clear: s.mu.Lock().
WriterLock(op) ==
    /\ thr.w.pc = "idle"
    /\ op = "Add" => Len(added) < MaxAdds
    /\ CanLock(mu)
    /\ mu' = [mu EXCEPT !.w = TRUE]
    /\ thr' = [thr EXCEPT !.w.pc = op]
    /\ UNCHANGED <<ringVars, hubVars, connVars, loopVars, procVars, heap, collectorVars>>

\* Add: s.metrics = append(s.metrics, metric).
WriterAppend ==
    /\ thr.w.pc = "Add"
    /\ \E m \in Snapshots :
        /\ metrics' = Append(metrics, m)
        /\ added' = Append(added, m)
    /\ thr' = [thr EXCEPT !.w.pc = "Evict"]
    /\ UNCHANGED <<maxSize, ret, newArg, cleared, hubVars, connVars, loopVars,
                   procVars, mu, heap, collectorVars>>

\* Add: the truncation to the last maxSize entries.
WriterEvict ==
    /\ thr.w.pc = "Evict"
    /\ metrics' = Evict(metrics, maxSize)
    /\ thr' = [thr EXCEPT !.w.pc = "Unlock"]
    /\ UNCHANGED <<maxSize, added, ret, newArg, cleared, hubVars, connVars, loopVars,
                   procVars, mu, heap, collectorVars>>

\* Clear: s.metrics = s.metrics[:0].
WriterClear ==
    /\ thr.w.pc = "Clear"
    /\ metrics' = Clear(metrics)
    /\ added' = <<>>
    /\ cleared' = (cleared \/ metrics # <<>>)
    /\ thr' = [thr EXCEPT !.w.pc = "Unlock"]
    /\ UNCHANGED <<maxSize, ret, newArg, hubVars, connVars, loopVars, procVars, mu, heap, collectorVars>>

\* Add / Clear: the deferred s.mu.Unlock(); the call returns.
WriterUnlock ==
    /\ thr.w.pc = "Unlock"
    /\ mu' = [mu EXCEPT !.w = FALSE]
    /\ thr' = [thr EXCEPT !.w = [pc |-> "idle", commit |-> metrics]]
    /\ UNCHANGED <<ringVars, hubVars, connVars, loopVars, procVars, heap, collectorVars>>

\* The writer goroutine returns (done <- true).
WriterReturns ==
    /\ thr.w.pc = "idle"
    /\ thr' = [thr EXCEPT !.w.pc = "done"]
    /\ UNCHANGED <<ringVars, hubVars, connVars, loopVars, procVars, mu, heap, collectorVars>>

\* GetHistory / GetLatest / Size: s.mu.RLock().
ReaderRLock(i, op) ==
    /\ thr.r[i].pc = "idle"
    /\ CanRLock(mu)
    /\ mu' = [mu EXCEPT !.r = @ + 1]
    /\ thr' = [thr EXCEPT !.r[i] = [pc |-> "locked", op |-> op, val |-> 0, quiet |-> FALSE]]
    /\ UNCHANGED <<ringVars, hubVars, connVars, loopVars, procVars, heap, collectorVars>>

\* The body of the read method: it computes its result from s.metrics.
ReaderRead(i) ==
    /\ thr.r[i].pc = "locked"
    /\ thr' = [thr EXCEPT !.r[i] = [pc |-> "read", op |-> @.op,
                                     val |-> ReadOp(@.op, metrics),
                                     quiet |-> thr.w.pc = "done"]]
    /\ UNCHANGED <<ringVars, hubVars, connVars, loopVars, procVars, mu, heap, collectorVars>>

\* The deferred s.mu.RUnlock(); the caller has the result.  The reader
\* goroutines discard their results; the results read after the writer has
\* returned are the ones the test compares, so those are kept.
ReaderRUnlock(i) ==
    /\ thr.r[i].pc = "read"
    /\ mu' = [mu EXCEPT !.r = @ - 1]
    /\ thr' = [thr EXCEPT !.r[i] = IF @.quiet THEN [@ EXCEPT !.pc = "idle"] ELSE NoRead]
    /\ UNCHANGED <<ringVars, hubVars, connVars, loopVars, procVars, heap, collectorVars>>

NextLock ==
    \/ \E op \in WriteOps : WriterLock(op)
    \/ WriterAppend
    \/ WriterEvict
    \/ WriterClear
    \/ WriterUnlock
    \/ WriterReturns
    \/ \E i \in Readers, op \in ReadOps : ReaderRLock(i, op)
    \/ \E i \in Readers : ReaderRead(i)
    \/ \E i \in Readers : ReaderRUnlock(i)

SpecLock == InitLock /\ [][NextLock]_vars

\* ------------------------------------------ the ring and its consumers
\* A snapshot as Go stores it: the value fields (Timestamp) lie in the struct,
\* a slice field (Disk) is a header pointing at a backing array in the heap.
\* Assigning or copy()ing the struct copies the header, not the array.
DiskSnapshot(t, ref) == [Timestamp |-> t, Disk |-> ref]

\* What a reader of the snapshot sees: the struct with its Disk elements.
Deep(m, h) == [Timestamp |-> m.Timestamp, Disk |-> h[m.Disk]]

\* The values a Disk element takes: as collected, and as a consumer rewrote it.
Collected == 0
Rewritten == 1

\* The backing arrays a consumer can reach through the value a call returned.
RetRefs ==
    CASE ret.op = "GetHistory" -> {ret.val[i].Disk : i \in 1..Len(ret.val)}
      [] ret.op = "GetLatest" /\ ret.val # NoMetric -> {ret.val.Disk}
      [] OTHER -> {}

InitCopy ==
    /\ newArg \in 1..MaxHistory
    /\ maxSize = NewMaxSize(newArg)
    /\ metrics = <<>>
    /\ added = <<>>
    /\ cleared = FALSE
    /\ ret = NoRet
    /\ ServerIdle
    /\ AsideIdle

\* storage.Add(metric) with a freshly collected snapshot holding one Disk entry.
CopyAdd ==
    /\ Len(heap) < MaxAdds
    /\ LET ref == Len(heap) + 1
           m == DiskSnapshot(ref, ref)
       IN  /\ heap' = Append(heap, Collected)
           /\ metrics' = Add(metrics, maxSize, m)
           /\ added' = Append(added, Deep(m, heap'))
    /\ ret' = [op |-> "Add", val |-> 0]
    /\ UNCHANGED <<maxSize, newArg, cleared, hubVars, connVars, loopVars, procVars, lockVars, collectorVars>>

CopyGetHistory ==
    /\ ret' = [op |-> "GetHistory", val |-> GetHistory(metrics)]
    /\ UNCHANGED <<maxSize, metrics, added, newArg, cleared, hubVars, connVars, loopVars,
                   asideVars>>

CopyGetLatest ==
    /\ ret' = [op |-> "GetLatest", val |-> GetLatest(metrics)]
    /\ UNCHANGED <<maxSize, metrics, added, newArg, cleared, hubVars, connVars, loopVars,
                   asideVars>>

\* The consumer assigns a value field of a returned snapshot, as the tests do
\* (history[0].Timestamp = ..., latest.System.Hostname = ...).
MutateField ==
    /\ \/ /\ ret.op = "GetHistory"
          /\ \E i \in 1..Len(ret.val) : ret' = [ret EXCEPT !.val[i].Timestamp = 0]
       \/ /\ ret.op = "GetLatest" /\ ret.val # NoMetric
          /\ ret' = [ret EXCEPT !.val.Timestamp = 0]
    /\ UNCHANGED <<maxSize, metrics, added, newArg, cleared, hubVars, connVars, loopVars,
                   asideVars>>

\* The consumer drops the first element of the returned sequence.
MutateSeq ==
    /\ ret.op = "GetHistory" /\ ret.val # <<>>
    /\ ret' = [ret EXCEPT !.val = Tail(@)]
    /\ UNCHANGED <<maxSize, metrics, added, newArg, cleared, hubVars, connVars, loopVars,
                   asideVars>>

\* The consumer assigns an element of a slice field of a returned snapshot
\* (history[i].Disk[0].UsedPercent = ...): the write goes to the backing array.
MutateElem ==
    /\ \E ref \in RetRefs :
        /\ heap[ref] = Collected
        /\ heap' = [heap EXCEPT ![ref] = Rewritten]
    /\ UNCHANGED <<ringVars, hubVars, connVars, loopVars, procVars, lockVars, collectorVars>>

NextCopy ==
    \/ CopyAdd
    \/ CopyGetHistory
    \/ CopyGetLatest
    \/ MutateField
    \/ MutateSeq
    \/ MutateElem

SpecCopy == InitCopy /\ [][NextCopy]_vars

\* ------------------------------------------------------------ the server
\* One WriteJSON call of the hub, as recorded in wrote.
WriteRec(metric, kind, ok) == [ts |-> metric.Timestamp, kind |-> kind, ok |-> ok]

\* NewServer + main: the ring has the -history capacity, the clients map is
\* empty, no connection has arrived, the loop is about to enter its select.
\* main starts the hub with "go server.run()"; TestMetricsCollection runs the
\* loop without it (hubPc = "off").
Init ==
    /\ newArg \in 0..MaxHistory
    /\ maxSize = NewMaxSize(newArg)
    /\ metrics = <<>>
    /\ added = <<>>
    /\ cleared = FALSE
    /\ ret = NoRet
    /\ AsideIdle
    /\ handed = <<>>
    /\ collectErrs = <<>>
    /\ clients = {}
    /\ hubPc \in {"select", "off"}
    /\ hubClient = 0
    /\ hubHist = <<>>
    /\ hubMetric = NoMetric
    /\ hubTodo = <<>>
    /\ hubRange = {}
    /\ regRing = [c \in Conns |-> <<>>]
    /\ hPc = [c \in Conns |-> "idle"]
    /\ closed = [c \in Conns |-> 0]
    /\ wrote = [c \in Conns |-> <<>>]
    /\ loopPc = "select"
    /\ loopMetric = NoMetric
    /\ clock = 0
    /\ tickReady = FALSE
    /\ cancelled = FALSE

\* ---- Server.handleWebSocket, one goroutine per connection
\* Connection handles are numbered in the order the requests arrive.
Arrives(c) == hPc[c] = "idle" /\ \A b \in Conns : b < c => hPc[b] # "idle"

\* upgrader.Upgrade succeeds: the handler blocks in "s.register <- conn".
Upgrade(c) ==
    /\ ~stopped
    /\ UNCHANGED asideVars
    /\ Arrives(c)
    /\ hPc' = [hPc EXCEPT ![c] = "sendRegister"]
    /\ UNCHANGED <<ringVars, hubVars, closed, wrote, loopVars>>

\* upgrader.Upgrade fails: the handler logs and returns, registering nothing.
UpgradeFails(c) ==
    /\ ~stopped
    /\ UNCHANGED asideVars
    /\ Arrives(c)
    /\ hPc' = [hPc EXCEPT ![c] = "done"]
    /\ UNCHANGED <<ringVars, hubVars, closed, wrote, loopVars>>

\* A plausible slip: a handler that registers the connection again after a
\* read error instead of leaving.
AfterReadErrorRetry == "sendRegister"

\* A plausible slip: a handler without the deferred function, which returns
\* after a read error and sends nothing to the hub.
AfterReadErrorLeaves == "done"

\* Where the handler goes when its read loop breaks: into the deferred
\* "s.unregister <- conn".
AfterReadError == "sendUnregister"

\* conn.ReadMessage returns an error: the read loop breaks and the deferred
\* function blocks in "s.unregister <- conn".
ReadError(c) ==
    /\ ~stopped
    /\ UNCHANGED asideVars
    /\ hPc[c] = "reading"
    /\ hPc' = [hPc EXCEPT ![c] = AfterReadError]
    /\ UNCHANGED <<ringVars, hubVars, closed, wrote, loopVars>>

\* ---- Server.run, the hub goroutine
\* A plausible slip: handling each case in a goroutine of its own ("go func"),
\* so the select is entered again while a replay or a fanout is under way.
HubAtSelectAnyway(pc) == pc # "off"

\* The hub receives from its channels only in the select at the top of its
\* for loop: a case runs to its end before the next receive.
HubAtSelect(pc) == pc = "select"

\* All orders in which a range over the map can visit the set S.
Orders(S) ==
    {o \in [1..Cardinality(S) -> S] : \A i, j \in 1..Cardinality(S) : o[i] = o[j] => i = j}

\* The connection the hub's pending WriteJSON is addressed to (0: none).
WriteTarget ==
    IF hubPc = "replay" THEN hubClient
    ELSE IF hubPc = "fanout" THEN Head(hubTodo)
    ELSE 0

\* A plausible slip: leaving the newest entry out of the replay, on the
\* assumption that its live broadcast is still to come.
ReplayHistoryButNewest(ms) ==
    IF ms = <<>> THEN <<>> ELSE SubSeq(GetHistory(ms), 1, Len(ms) - 1)

\* "history := s.storage.GetHistory()" of the register case: what is replayed
\* is the whole ring as it is when the registration is handled.
ReplayHistory(ms) == GetHistory(ms)

\* case client := <-s.register: the map entry is set, the history is copied;
\* the writes of the replay follow one by one.
HubRegister(c) ==
    /\ ~stopped
    /\ UNCHANGED asideVars
    /\ HubAtSelect(hubPc)
    /\ hPc[c] = "sendRegister"
    /\ hPc' = [hPc EXCEPT ![c] = "reading"]
    /\ clients' = clients \cup {c}
    /\ regRing' = [regRing EXCEPT ![c] = metrics]
    /\ LET history == ReplayHistory(metrics)
       IN  IF history = <<>>
           THEN /\ hubPc' = "select"
                /\ UNCHANGED <<hubClient, hubHist>>
           ELSE /\ hubPc' = "replay"
                /\ hubClient' = c
                /\ hubHist' = history
    /\ UNCHANGED <<ringVars, hubMetric, hubTodo, hubRange, closed, wrote, loopVars>>

\* What the register case does with the client after a replay write returned
\* err: "break" - the client stays in the map and is not closed.
ReplayFailed(cs, c) == cs

\* A plausible slip: replaying newest first.
ReplayNextNewest(hist) == hist[Len(hist)]

\* The next entry of the replay loop of a snapshot sequence.
ReplayNext(hist) == Head(hist)

\* The entries the replay loop still has to write after this one.
ReplayRest(hist) == Tail(hist)

\* A plausible slip: "return" instead of "break" on a replay write error,
\* which ends the hub goroutine.
AfterReplayReturns(ok) == IF ok THEN "select" ELSE "off"

\* Where the hub goes when the replay loop ends, by its last entry or by the
\* "break" on a write error: back to the select of its for loop.
AfterReplay(ok) == "select"

\* for _, metrics := range history { client.WriteJSON(metrics) ... }: one write
\* of the replay returns, with or without an error.  WriteJSON returns only
\* once the peer's socket takes the frame or the connection dies (main.go sets
\* no write deadline), so this step is the peer's to allow.
HubReplayWrite(ok) ==
    /\ ~stopped
    /\ UNCHANGED asideVars
    /\ hubPc = "replay"
    /\ wrote' = [wrote EXCEPT ![hubClient] =
                    Append(@, WriteRec(ReplayNext(hubHist), "replay", ok))]
    /\ clients' = IF ok THEN clients ELSE ReplayFailed(clients, hubClient)
    /\ IF ok /\ ReplayRest(hubHist) # <<>>
       THEN /\ hubHist' = ReplayRest(hubHist)
            /\ UNCHANGED <<hubPc, hubClient>>
       ELSE /\ hubHist' = <<>>
            /\ hubClient' = 0
            /\ hubPc' = AfterReplay(ok)
    /\ UNCHANGED <<ringVars, hubMetric, hubTodo, hubRange, regRing, hPc, closed, loopVars>>

\* A plausible slip of the unregister case: delete and Close without the
\* "if _, ok := s.clients[client]; ok" test.
UnregisterUnguarded(cs, cl, c) ==
    [clients |-> cs \ {c}, closed |-> [cl EXCEPT ![c] = @ + 1]]

\* A plausible slip of the unregister case: the delete without client.Close().
UnregisterKeepsOpen(cs, cl, c) == [clients |-> cs \ {c}, closed |-> cl]

\* The unregister case on the map cs and the Close counts cl: a mapped client
\* is deleted and closed, an unmapped one is left alone.
Unregister(cs, cl, c) ==
    IF c \in cs
    THEN [clients |-> cs \ {c}, closed |-> [cl EXCEPT ![c] = @ + 1]]
    ELSE [clients |-> cs, closed |-> cl]

\* case client := <-s.unregister: the handler's deferred send returns.
HubUnregister(c) ==
    /\ ~stopped
    /\ UNCHANGED asideVars
    /\ HubAtSelect(hubPc)
    /\ hPc[c] = "sendUnregister"
    /\ hPc' = [hPc EXCEPT ![c] = "done"]
    /\ clients' = Unregister(clients, closed, c).clients
    /\ closed' = Unregister(clients, closed, c).closed
    /\ UNCHANGED <<ringVars, hubPc, hubClient, hubHist, hubMetric, hubTodo,
                   hubRange, regRing, wrote, loopVars>>

\* The clients a broadcast ranges over: every entry of the map.
RangeClients(cs) == cs

\* case metrics := <-s.broadcast: the loop's send is accepted and the range
\* over the map begins, in an order the runtime picks.
HubBroadcast ==
    /\ ~stopped
    /\ UNCHANGED asideVars
    /\ HubAtSelect(hubPc)
    /\ loopPc = "send"
    /\ loopPc' = "select"
    /\ loopMetric' = NoMetric
    /\ handed' = Append(handed, loopMetric)
    /\ IF RangeClients(clients) = {}
       THEN /\ UNCHANGED <<hubPc, hubMetric, hubTodo, hubRange>>
       ELSE /\ hubPc' = "fanout"
            /\ hubMetric' = loopMetric
            /\ hubRange' = clients
            /\ \E o \in Orders(RangeClients(clients)) : hubTodo' = o
    /\ UNCHANGED <<ringVars, clients, hubClient, hubHist, regRing, connVars,
                   clock, tickReady, cancelled, collectErrs>>

\* A plausible slip: leaving the range at the first failed write ("break", as
\* the replay loop does).
FanoutRestBreak(todo, ok) == IF ok THEN Tail(todo) ELSE <<>>

\* The clients left to visit after the write to the head of the range returned:
\* the range goes on to the next client whether or not the write failed.
FanoutRest(todo, ok) == Tail(todo)

\* A plausible slip: closing the failed client but leaving it in the map.
FanoutFailedKeep(cs, c) == cs

\* The map after a broadcast write to c returned err: delete(s.clients, client).
FanoutFailed(cs, c) == cs \ {c}

\* err := client.WriteJSON(metrics) for the next client of the range; on an
\* error the client is closed and deleted from the map, and the range goes on.
HubFanoutWrite(ok) ==
    /\ ~stopped
    /\ UNCHANGED asideVars
    /\ hubPc = "fanout"
    /\ LET c == Head(hubTodo)
           rest == FanoutRest(hubTodo, ok)
       IN  /\ wrote' = [wrote EXCEPT ![c] = Append(@, WriteRec(hubMetric, "live", ok))]
           /\ IF ok
              THEN UNCHANGED <<clients, closed>>
              ELSE /\ closed' = [closed EXCEPT ![c] = @ + 1]
                   /\ clients' = FanoutFailed(clients, c)
           /\ hubTodo' = rest
           /\ IF rest = <<>>
              THEN /\ hubPc' = "select"
                   /\ hubMetric' = NoMetric
                   /\ hubRange' = {}
              ELSE UNCHANGED <<hubPc, hubMetric, hubRange>>
    /\ UNCHANGED <<ringVars, hubClient, hubHist, regRing, hPc, loopVars>>

\* The ticker exists from time.NewTicker to the deferred ticker.Stop().
TickerRuns(pc) == pc \notin {"start", "panic", "done"}

\* ---- Server.startMetricsCollection, the collection loop
\* The ticker delivers a tick into ticker.C (buffer of one; a tick that finds
\* the buffer full is dropped).  A loop parked in select with ctx.Done()
\* closed is already woken for the Done case, so a later tick cannot win;
\* a tick that is ready together with ctx.Done() got there while the loop
\* was busy, or before cancel() was called.
TickFires ==
    /\ ~stopped
    /\ UNCHANGED asideVars
    /\ TickerRuns(loopPc)
    /\ ~tickReady
    /\ ~(loopPc = "select" /\ cancelled)
    /\ clock < MaxSamples
    /\ tickReady' = TRUE
    /\ UNCHANGED <<ringVars, hubVars, connVars, loopPc, loopMetric, clock, cancelled,
                   handed, collectErrs>>

\* cancel() is called (shutdown goroutine of main, or the test's timeout).
Cancel ==
    /\ ~stopped
    /\ UNCHANGED asideVars
    /\ ~cancelled
    /\ cancelled' = TRUE
    /\ UNCHANGED <<ringVars, hubVars, connVars, loopPc, loopMetric, clock, tickReady,
                   handed, collectErrs>>

\* Whether the select of the loop may take "case <-ticker.C": a ready case is
\* chosen among all ready cases, whether or not ctx.Done() is closed too.
SelectMayTick(tick, done) == tick

\* A plausible slip of the collector: handing out the snapshot of the call
\* before instead of building a new one.
CollectCached(n) == SystemMetrics(IF n = 0 THEN 1 ELSE n)

\* Collector.Collect, called after n earlier calls: a new SystemMetrics whose
\* Timestamp is time.Now() at the start of the call.
Collect(n) == SystemMetrics(n + 1)

\* case <-ticker.C: the tick is consumed and s.collector.Collect() begins; the
\* snapshot's Timestamp is taken first, then the collectors run (about 1 s).
LoopTick ==
    /\ ~stopped
    /\ UNCHANGED asideVars
    /\ loopPc = "select"
    /\ SelectMayTick(tickReady, cancelled)
    /\ clock < MaxSamples
    /\ tickReady' = FALSE
    /\ clock' = clock + 1
    /\ loopMetric' = Collect(clock)
    /\ loopPc' = "collect"
    /\ UNCHANGED <<ringVars, hubVars, connVars, cancelled, handed, collectErrs>>

\* A plausible slip of the loop: logging the error without "continue".
SkipsNever(err) == FALSE

\* "if err != nil { log...; continue }": whether the rest of the iteration is
\* skipped.
Skips(err) == err

\* A plausible slip: a buffered s.broadcast (or a send in a goroutine of its
\* own), so the loop is back in its select right after the Add.
AfterAddNoWait == "select"

\* Where the loop is after s.storage.Add(metrics): blocked in the send on the
\* unbuffered s.broadcast until the hub receives.
AfterAdd == "send"

\* metrics, err := s.collector.Collect() returns.  On an error the loop goes
\* back to its select; otherwise s.storage.Add(metrics) runs and the loop
\* blocks in "s.broadcast <- metrics".
LoopReturn(err) ==
    /\ ~stopped
    /\ loopPc = "collect"
    /\ collectErrs' = Append(collectErrs, err)
    /\ IF Skips(err)
       THEN /\ loopPc' = "select"
            /\ loopMetric' = NoMetric
            /\ UNCHANGED <<metrics, added>>
       ELSE /\ metrics' = Add(metrics, maxSize, loopMetric)
            /\ added' = Append(added, loopMetric)
            /\ loopPc' = AfterAdd
            /\ UNCHANGED loopMetric
    /\ UNCHANGED <<maxSize, ret, newArg, cleared, hubVars, connVars, clock,
                   tickReady, cancelled, handed>>

\* The same step for a Collect whose inner workings are left out.
LoopCollected(err) ==
    /\ LoopReturn(err)
    /\ UNCHANGED asideVars

\* Collector.Collect ends in "return metrics, nil" whatever its collectors
\* did: in the server the error is always nil.
LoopAdd == LoopCollected(FALSE)

\* ---- Collector.Collect and its sub-collectors
Subs == {"CPU", "Memory", "Disk", "Network", "System", "Temperature"}

\* A field of the snapshot: left at its zero value, or assigned what its
\* sub-collector returned.
ZeroValue == 0
Filled == 1

\* A plausible slip of Collect: handing a sub-collector's error to the caller.
CollectWithFailFast(m, failing) ==
    [metrics |-> [Timestamp |-> m.Timestamp,
                  sub |-> [x \in Subs |-> IF x \in failing THEN ZeroValue ELSE Filled]],
     err |-> failing # {}]

\* Collect's result for the snapshot m begun at the tick when the
\* sub-collectors in failing return an error: each field is assigned only
\* "if ..., err := c.collectX(); err == nil", and the function ends in
\* "return metrics, nil".
CollectWith(m, failing) ==
    [metrics |-> [Timestamp |-> m.Timestamp,
                  sub |-> [x \in Subs |-> IF x \in failing THEN ZeroValue ELSE Filled]],
     err |-> FALSE]

\* Collect returns to the loop, some of its sub-collectors having failed.
CollectReturns ==
    \E failing \in SUBSET Subs :
        /\ probe' = [failing |-> failing, out |-> CollectWith(loopMetric, failing)]
        /\ LoopReturn(CollectWith(loopMetric, failing).err)
        /\ UNCHANGED <<stopped, elapsed, interval, lockVars, heap, collectorVars>>

\* case <-ctx.Done(): return (the deferred ticker.Stop() runs).
LoopCtxDone ==
    /\ ~stopped
    /\ UNCHANGED asideVars
    /\ loopPc = "select"
    /\ cancelled
    /\ loopPc' = "done"
    /\ tickReady' = FALSE
    /\ UNCHANGED <<ringVars, hubVars, connVars, loopMetric, clock, cancelled,
                   handed, collectErrs>>

Next ==
    \/ \E c \in Conns : Upgrade(c)
    \/ \E c \in Conns : UpgradeFails(c)
    \/ \E c \in Conns : ReadError(c)
    \/ \E c \in Conns : HubRegister(c)
    \/ \E ok \in BOOLEAN : HubReplayWrite(ok)
    \/ \E c \in Conns : HubUnregister(c)
    \/ HubBroadcast
    \/ \E ok \in BOOLEAN : HubFanoutWrite(ok)
    \/ TickFires
    \/ Cancel
    \/ LoopTick
    \/ LoopAdd
    \/ LoopCtxDone

Spec == Init /\ [][Next]_vars

\* ---- the collection loop over a source that may fail
\* The loop and the hub with no connection, Collect returning an error or not.
NextSource ==
    \/ TickFires
    \/ Cancel
    \/ LoopTick
    \/ \E err \in BOOLEAN : LoopCollected(err)
    \/ LoopCtxDone
    \/ HubBroadcast

SpecSource == Init /\ [][NextSource]_vars

\* The loop over the collector, and the hub without connections.
NextCollect ==
    \/ TickFires
    \/ Cancel
    \/ LoopTick
    \/ CollectReturns
    \/ LoopCtxDone
    \/ HubBroadcast

SpecCollect == Init /\ [][NextCollect]_vars

\* ---- the pull endpoints, /api/metrics and /api/history
\* The snapshot an on-demand Collect returns: taken at the time of the
\* request, which is none of the loop's sampling times.
OnDemand == SystemMetrics(-1)

\* A plausible slip: an endpoint that stores the sample it took.
RingAfterApiMetricsAdds(ms, cap, m) == Add(ms, cap, m)

\* The ring after handleAPIMetrics: the handler makes no call on s.storage.
RingAfterApiMetrics(ms, cap, m) == ms

\* handleAPIMetrics: s.collector.Collect(), then the snapshot is encoded into
\* the response (Collect's error is always nil).
ApiMetrics ==
    /\ ~stopped
    /\ ret' = [op |-> "metrics", val |-> OnDemand]
    /\ metrics' = RingAfterApiMetrics(metrics, maxSize, OnDemand)
    /\ UNCHANGED <<maxSize, added, newArg, cleared, hubVars, connVars, loopVars, asideVars>>

\* handleAPIHistory: s.storage.GetHistory() is encoded into the response.
ApiHistory ==
    /\ ~stopped
    /\ ret' = [op |-> "history", val |-> GetHistory(metrics)]
    /\ UNCHANGED <<maxSize, metrics, added, newArg, cleared, hubVars, connVars, loopVars,
                   asideVars>>

\* ---- the shared Collector under its two callers
\* main builds one Collector (NewCollector) and hands it to the Server: the
\* loop calls s.collector.Collect() at each tick, and net/http runs
\* handleAPIMetrics, which calls it too, in a goroutine per request.  Collector
\* has no mutex.
InitCollector ==
    /\ newArg = 0
    /\ maxSize = NewMaxSize(newArg)
    /\ metrics = <<>>
    /\ added = <<>>
    /\ cleared = FALSE
    /\ ret = NoRet
    /\ ServerIdle
    /\ AsideIdle

\* Goroutine g enters Collect: the snapshot is begun and the sub-collectors
\* run (collectCPU alone takes about a second).
CollectBegins(g) ==
    /\ calls[g].pc = "out"
    /\ timeNow < MaxSamples
    /\ calls' = [calls EXCEPT ![g].pc = "collectors"]
    /\ UNCHANGED <<ringVars, hubVars, connVars, loopVars, procVars, lockVars, heap,
                   lastCollectTime, timeNow>>

\* "c.lastCollectTime = time.Now()", first half: g reads the clock and stores
\* the first word of the time.Time.  The assignment of the struct is not one
\* machine store, and nothing orders it against another goroutine's.
CollectStoresWall(g) ==
    /\ calls[g].pc = "collectors"
    /\ timeNow' = timeNow + 1
    /\ calls' = [calls EXCEPT ![g] = [pc |-> "storing", now |-> timeNow + 1]]
    /\ lastCollectTime' = [lastCollectTime EXCEPT !.wall = timeNow + 1]
    /\ UNCHANGED <<ringVars, hubVars, connVars, loopVars, procVars, lockVars, heap>>

\* "c.lastCollectTime = time.Now()", second half, and "return metrics, nil".
CollectStoresExt(g) ==
    /\ calls[g].pc = "storing"
    /\ lastCollectTime' = [lastCollectTime EXCEPT !.ext = calls[g].now]
    /\ calls' = [calls EXCEPT ![g].pc = "out"]
    /\ UNCHANGED <<ringVars, hubVars, connVars, loopVars, procVars, lockVars, heap,
                   timeNow>>

NextCollector ==
    \/ \E g \in Collectors : CollectBegins(g)
    \/ \E g \in Collectors : CollectStoresWall(g)
    \/ \E g \in Collectors : CollectStoresExt(g)

SpecCollector == InitCollector /\ [][NextCollector]_vars

\* The connection that arrives first.
FirstConn == {c \in Conns : \A b \in Conns : c <= b}

\* The server with one WebSocket subscriber and the pull endpoints in use.
NextPull ==
    \/ \E c \in FirstConn : Upgrade(c)
    \/ \E c \in FirstConn : ReadError(c)
    \/ \E c \in FirstConn : HubRegister(c)
    \/ \E ok \in BOOLEAN : HubReplayWrite(ok)
    \/ \E c \in FirstConn : HubUnregister(c)
    \/ HubBroadcast
    \/ \E ok \in BOOLEAN : HubFanoutWrite(ok)
    \/ TickFires
    \/ LoopTick
    \/ LoopAdd
    \/ ApiMetrics
    \/ ApiHistory

SpecPull == Init /\ [][NextPull]_vars

\* ---- the start of the collection loop
\* The values of the -interval flag tried: flag.Duration accepts any of them
\* and main passes the flag on unchecked.
Intervals == {-1, 0, 1}

\* main up to "go server.startMetricsCollection(ctx)": as Init, with the loop
\* goroutine at its first statement and the flag any duration.
InitStart ==
    /\ newArg \in 0..MaxHistory
    /\ maxSize = NewMaxSize(newArg)
    /\ metrics = <<>>
    /\ added = <<>>
    /\ cleared = FALSE
    /\ ret = NoRet
    /\ stopped = FALSE
    /\ elapsed = 0
    /\ probe = NoProbe
    /\ interval \in Intervals
    /\ mu = [w |-> FALSE, r |-> 0]
    /\ thr = <<>>
    /\ heap = <<>>
    /\ CollectorIdle
    /\ handed = <<>>
    /\ collectErrs = <<>>
    /\ clients = {}
    /\ hubPc \in {"select", "off"}
    /\ hubClient = 0
    /\ hubHist = <<>>
    /\ hubMetric = NoMetric
    /\ hubTodo = <<>>
    /\ hubRange = {}
    /\ regRing = [c \in Conns |-> <<>>]
    /\ hPc = [c \in Conns |-> "idle"]
    /\ closed = [c \in Conns |-> 0]
    /\ wrote = [c \in Conns |-> <<>>]
    /\ loopPc = "start"
    /\ loopMetric = NoMetric
    /\ clock = 0
    /\ tickReady = FALSE
    /\ cancelled = FALSE

\* ticker := time.NewTicker(*interval), the loop's first statement.  NewTicker
\* panics on a non-positive duration; nothing recovers a panic in this
\* goroutine, so the runtime ends the whole process.
LoopStart ==
    /\ ~stopped
    /\ loopPc = "start"
    /\ IF interval > 0
       THEN /\ loopPc' = "select"
            /\ UNCHANGED stopped
       ELSE /\ loopPc' = "panic"
            /\ stopped' = TRUE
    /\ UNCHANGED <<ringVars, hubVars, connVars, loopMetric, clock, tickReady, cancelled,
                   handed, collectErrs, elapsed, probe, interval, lockVars, heap, collectorVars>>

\* The server from the start of the loop goroutine on, with one connection.
NextStart ==
    \/ LoopStart
    \/ \E c \in FirstConn : Upgrade(c)
    \/ \E c \in FirstConn : HubRegister(c)
    \/ \E ok \in BOOLEAN : HubReplayWrite(ok)
    \/ HubBroadcast
    \/ \E ok \in BOOLEAN : HubFanoutWrite(ok)
    \/ TickFires
    \/ Cancel
    \/ LoopTick
    \/ LoopAdd
    \/ LoopCtxDone

SpecStart == InitStart /\ [][NextStart]_vars

\* ---- the collection loop against the passing of time
\* One period of the ticker passes.  The runtime sends on ticker.C without
\* blocking: if the channel's one-slot buffer still holds the tick before, the
\* new tick is dropped.  (TickFires is this step where it changes ticker.C.)
\* A loop parked in its select with a tick ready takes it before the next
\* period passes.
IntervalElapses ==
    /\ ~stopped
    /\ TickerRuns(loopPc)
    /\ ~(loopPc = "select" /\ (cancelled \/ tickReady))
    /\ elapsed < MaxSamples
    /\ elapsed' = elapsed + 1
    /\ tickReady' = TRUE
    /\ UNCHANGED <<ringVars, hubVars, connVars, loopPc, loopMetric, clock, cancelled,
                   handed, collectErrs, stopped, probe, interval, lockVars, heap, collectorVars>>

\* The loop, the hub without connections (or no hub, as TestMetricsCollection
\* runs it) and the ticker.
NextTicks ==
    \/ IntervalElapses
    \/ Cancel
    \/ LoopTick
    \/ LoopAdd
    \/ LoopCtxDone
    \/ HubBroadcast

\* A goroutine that can run does run: the loop takes a tick that is ready,
\* Collect returns, the hub takes a send that is pending.
FairnessTicks ==
    /\ WF_vars(LoopTick)
    /\ WF_vars(LoopAdd)
    /\ SF_vars(LoopCtxDone)
    /\ SF_vars(HubBroadcast)

FairSpecTicks == Init /\ [][NextTicks]_vars /\ FairnessTicks

\* ---- main, the graceful-shutdown goroutine
\* After the signal and cancel(), srv.Shutdown closes the listener and waits
\* for the connections the http.Server still tracks; a hijacked (WebSocket)
\* connection is not among them. ListenAndServe returns ErrServerClosed and
\* main returns: the process ends with the hub, the handlers and the loop
\* wherever they were. Nothing on this path touches s.clients or calls Close.
ShutdownReturns ==
    /\ cancelled
    /\ ~stopped
    /\ stopped' = TRUE
    /\ UNCHANGED <<ringVars, hubVars, connVars, loopVars, elapsed, probe, interval,
                   lockVars, heap, collectorVars>>

NextShutdown ==
    \/ Next
    \/ ShutdownReturns

SpecShutdown == Init /\ [][NextShutdown]_vars

\* ------------------------------------------------------------- claims
\* The last k entries of a sequence.
LastOf(s, k) == SubSeq(s, Len(s) - k + 1, Len(s))

\* C1: after N Add calls on a ring of capacity C >= 1 (no Clear in between),
\* Size() is min(N, C) and GetHistory() is exactly the last min(N, C) added
\* snapshots, oldest first: eviction drops the oldest entries only.
C1_AddKeepsNewest ==
    /\ maxSize >= 1
    /\ Size(metrics) = Min(Len(added), maxSize)
    /\ GetHistory(metrics) = LastOf(added, Min(Len(added), maxSize))

\* C1 witness: capacity 2, four adds, and the ring has evicted the two oldest.
C1_Witness ==
    /\ maxSize = 2
    /\ Len(added) = 4
    /\ added[1] # added[3]
    /\ GetHistory(metrics) = <<added[3], added[4]>>

\* ---- scheduling
\* The Go scheduler runs every runnable goroutine, and a select takes each
\* case that is ready again and again with probability one.  Nothing forces
\* the environment: a tick, cancel(), a new connection, a read error, or a
\* WriteJSON returning (a write to a peer that does not drain never returns).
Fairness ==
    /\ WF_vars(LoopAdd)
    /\ SF_vars(LoopCtxDone)
    /\ SF_vars(HubBroadcast)
    /\ \A c \in Conns : SF_vars(HubRegister(c))
    /\ \A c \in Conns : SF_vars(HubUnregister(c))

FairSpec == Init /\ [][Next]_vars /\ Fairness

\* The peers take what the hub writes, or their connections die: every
\* WriteJSON call of the hub returns.
WritesReturn ==
    /\ WF_vars(\E ok \in BOOLEAN : HubReplayWrite(ok))
    /\ WF_vars(\E ok \in BOOLEAN : HubFanoutWrite(ok))

\* main with -history=1 (as Init, the hub goroutine started).
InitHub ==
    /\ Init
    /\ newArg = 1
    /\ hubPc = "select"

\* The server while it serves: every upgrade succeeds and no shutdown begins.
NextServing ==
    \/ \E c \in Conns : Upgrade(c)
    \/ \E c \in Conns : ReadError(c)
    \/ \E c \in Conns : HubRegister(c)
    \/ \E ok \in BOOLEAN : HubReplayWrite(ok)
    \/ \E c \in Conns : HubUnregister(c)
    \/ HubBroadcast
    \/ \E ok \in BOOLEAN : HubFanoutWrite(ok)
    \/ TickFires
    \/ LoopTick
    \/ LoopAdd

\* The hub's select takes a pending unregister send sooner or later, however
\* often other cases are ready too.
UnregisterTaken == \A c \in Conns : SF_vars(HubUnregister(c))

FairSpecWrites == InitHub /\ [][NextServing]_vars /\ UnregisterTaken /\ WritesReturn

\* The hub's select picks among its ready cases at random: a channel that
\* has a sender waiting every time the hub comes back to the select is
\* received from sooner or later.  Nothing is assumed about which of several
\* senders waiting on one channel is served.
SelectTakes ==
    /\ SF_vars(\E c \in Conns : HubRegister(c))
    /\ SF_vars(\E c \in Conns : HubUnregister(c))
    /\ SF_vars(HubBroadcast)

\* The WriteJSON call the hub is in, of a replay or of a broadcast, returns.
HubWriteReturns ==
    \E ok \in BOOLEAN : HubReplayWrite(ok) \/ HubFanoutWrite(ok)

FairSpecChannels ==
    InitHub /\ [][NextServing]_vars /\ SelectTakes /\ WF_vars(HubWriteReturns)

\* ------------------------------------------------------ claims of the hub
\* The positions of c's write log that hold a write of the given kind.
WritesOf(c, kind) == {i \in 1..Len(wrote[c]) : wrote[c][i].kind = kind}

\* The positions of c's write log whose WriteJSON returned an error.
FailedWrites(c) == {i \in 1..Len(wrote[c]) : ~wrote[c][i].ok}

\* The positions of c's write log that delivered snapshot t to the peer.
Deliveries(c, t) == {i \in 1..Len(wrote[c]) : wrote[c][i].ok /\ wrote[c][i].ts = t}

\* C2: every subscriber receives each snapshot at most once and in sampling
\* order, replay and live broadcasts taken together: the Timestamps delivered
\* to a connection are strictly increasing.
C2_DeliveredOnceInOrder ==
    \A c \in Conns : \A i, j \in 1..Len(wrote[c]) :
        (i < j /\ wrote[c][i].ok /\ wrote[c][j].ok) => wrote[c][i].ts < wrote[c][j].ts

\* C3: a connection whose replay write failed is not in the subscriber set
\* once its Register handling has finished.
C3_FailedReplayNotRegistered ==
    \A c \in Conns :
        (hubClient # c /\ (WritesOf(c, "replay") \cap FailedWrites(c)) # {}) => c \notin clients

\* C4: once a write to a connection has failed, the hub makes no further write
\* to it: a failed write is the last entry of the connection's write log.
C4_NoWriteAfterFailure ==
    \A c \in Conns : \A i \in FailedWrites(c) : i = Len(wrote[c])

\* The positions of c's write log that hold a broadcast write of snapshot m.
LiveWrites(log, m) ==
    {i \in 1..Len(log) : log[i].kind = "live" /\ log[i].ts = m.Timestamp}

\* C5: when the handling of a broadcast ends, every client that was registered
\* when it began has been written exactly that snapshot exactly once in it,
\* whether or not a write to another client failed; a client whose write
\* failed is closed and out of the set, one whose write succeeded is still in.
C5_FanoutIsolatesFailure ==
    [][(hubPc = "fanout" /\ hubPc' = "select") =>
        \A c \in hubRange :
            /\ Cardinality(LiveWrites(wrote'[c], hubMetric)) = 1
            /\ \A i \in LiveWrites(wrote'[c], hubMetric) :
                IF wrote'[c][i].ok
                THEN c \in clients' /\ closed'[c] = 0
                ELSE c \notin clients' /\ closed'[c] = 1]_vars

\* C5 witness: one broadcast whose write to connection 1 failed and whose write
\* to connection 2 succeeded; 1 is closed and gone, 2 got exactly one message.
C5_Witness ==
    /\ hubPc = "select"
    /\ wrote[1] = <<[ts |-> 1, kind |-> "live", ok |-> FALSE]>>
    /\ wrote[2] = <<[ts |-> 1, kind |-> "live", ok |-> TRUE]>>
    /\ clients = {2}
    /\ closed[1] = 1

\* C6: while a write to one subscriber is pending (stuck on a slow peer), a
\* snapshot the loop publishes is still eventually delivered to every other
\* registered subscriber whose connection is healthy (its handler is reading
\* and no write to it has failed), unless that subscriber leaves the set.
C6_StuckWriteDoesNotStall ==
    \A c \in Conns : \A d \in Conns \ {c} : \A t \in Stamps :
        (/\ WriteTarget = c
         /\ d \in clients /\ hPc[d] = "reading" /\ FailedWrites(d) = {}
         /\ loopPc = "send" /\ loopMetric.Timestamp = t)
            ~> (Deliveries(d, t) # {} \/ d \notin clients)

\* The log entries the replay of a snapshot sequence makes when no write fails.
ReplayLog(ms) == [i \in 1..Len(ms) |-> [ts |-> ms[i].Timestamp, kind |-> "replay", ok |-> TRUE]]

\* C7: the replay writes to a connection are the Ring content of the moment
\* its registration was handled, oldest first (all of it once the replay has
\* finished without a write error), and every replay write comes before every
\* broadcast write to that connection.
C7_ReplayThenLive ==
    \A c \in Conns :
        LET log == wrote[c]
            nReplay == Cardinality(WritesOf(c, "replay"))
        IN  /\ WritesOf(c, "replay") = 1..nReplay
            /\ nReplay <= Len(regRing[c])
            /\ \A i \in 1..nReplay : log[i].ts = regRing[c][i].Timestamp
            /\ (hubClient # c /\ WritesOf(c, "replay") \cap FailedWrites(c) = {})
                   => SubSeq(log, 1, nReplay) = ReplayLog(regRing[c])
            /\ (hubClient = c /\ hubPc = "replay")
                   => /\ WritesOf(c, "live") = {}
                      /\ SubSeq(log, 1, nReplay) \o ReplayLog(hubHist) = ReplayLog(regRing[c])

\* C7 witness: a connection registered while the ring held two snapshots, got
\* both in order, and then got the broadcast of the third.
C7_Witness ==
    /\ regRing[1] = <<SystemMetrics(1), SystemMetrics(2)>>
    /\ wrote[1] = <<[ts |-> 1, kind |-> "replay", ok |-> TRUE],
                    [ts |-> 2, kind |-> "replay", ok |-> TRUE],
                    [ts |-> 3, kind |-> "live", ok |-> TRUE]>>

\* C8: the hub writes only to connections that are in the subscriber set and
\* have never been removed from it (every removal closes the connection), and
\* a connection whose broadcast write failed is out of the set in the very
\* state that records the failure.
C8_NoWriteAfterRemoval ==
    /\ [][\A c \in Conns :
            /\ wrote'[c] # wrote[c] => (c \in clients /\ closed[c] = 0)
            /\ (c \in clients /\ c \notin clients') => closed'[c] = closed[c] + 1
            /\ closed[c] > 0 => c \notin clients']_vars
    /\ [](\A c \in Conns :
            (WritesOf(c, "live") \cap FailedWrites(c)) # {} => c \notin clients)

\* C8 witness: a broadcast write to connection 1 failed while connection 2 is
\* still to be visited by the same range; 1 is already out of the set.
C8_Witness ==
    /\ hubPc = "fanout"
    /\ hubTodo = <<2>>
    /\ (WritesOf(1, "live") \cap FailedWrites(1)) # {}
    /\ 1 \notin clients

\* C9: once cancel() has been called the loop takes no tick: it starts no
\* Collect (and so no Add and no broadcast send) from its select.
C9_NoSampleAfterCancel ==
    [][(cancelled /\ loopPc = "select") => loopPc' # "collect"]_vars

\* C10: after cancel() the collection loop eventually returns.
C10_CancelledLoopHalts ==
    cancelled ~> (loopPc = "done")

\* A connection whose handler is serving it: upgraded and not yet unregistering.
LiveConn(c) == hPc[c] \in {"sendRegister", "reading"}

\* C11: once shutdown has completed, the subscriber set is empty and every
\* connection that was live (registered, or being served by its handler) has
\* been closed.
C11_ShutdownClosesSubscribers ==
    stopped => /\ clients = {}
               /\ \A c \in Conns : (c \in clients \/ LiveConn(c)) => closed[c] > 0

\* C12: with one writer (Add, Clear) and the readers interleaved in every way,
\* a writer inside its call excludes every reader, and whatever a reader
\* computed is what its method returns on a buffer some completed write left
\* behind: never longer than the capacity, never the appended-but-not-yet-
\* truncated buffer.
C12_ReadersSeeCommitted ==
    /\ mu.w => mu.r = 0
    /\ \A i \in Readers :
        thr.r[i].pc = "read" =>
            /\ thr.r[i].val = ReadOp(thr.r[i].op, thr.w.commit)
            /\ thr.r[i].op = "GetHistory" => Len(thr.r[i].val) <= maxSize
            /\ thr.r[i].op = "Size" => thr.r[i].val <= maxSize

\* C12 witness: both readers are inside their calls at once, one holding a
\* full history read after the ring has evicted.
C12_Witness ==
    /\ maxSize = 2
    /\ Len(added) > maxSize
    /\ mu.r = 2
    /\ \E i \in Readers :
        /\ thr.r[i].pc = "read"
        /\ thr.r[i].op = "GetHistory"
        /\ Len(thr.r[i].val) = maxSize

\* C13: once the writer goroutine has returned, whatever the interleaving of
\* Add, GetHistory, GetLatest and Size calls was, a GetHistory result and a
\* Size result agree: len(GetHistory()) = Size(), both on the results the
\* callers hold and on the buffer itself.
C13_HistoryLenIsSize ==
    thr.w.pc = "done" =>
        /\ Len(GetHistory(metrics)) = Size(metrics)
        /\ \A i, j \in Readers :
            /\ thr.r[i].quiet /\ thr.r[i].pc # "locked" /\ thr.r[i].op = "GetHistory"
            /\ thr.r[j].quiet /\ thr.r[j].pc # "locked" /\ thr.r[j].op = "Size"
            => Len(thr.r[i].val) = thr.r[j].val

\* C13 witness: after a run in which the ring evicted, all goroutines are
\* done and the two results compared are a full history and its size.
C13_Witness ==
    /\ thr.w.pc = "done"
    /\ Len(added) > maxSize
    /\ mu = [w |-> FALSE, r |-> 0]
    /\ thr.r[1] = [pc |-> "idle", op |-> "GetHistory", val |-> metrics, quiet |-> TRUE]
    /\ thr.r[2] = [pc |-> "idle", op |-> "Size", val |-> maxSize, quiet |-> TRUE]

\* C14: whatever a consumer did to the values GetHistory and GetLatest
\* returned, the ring still reads as the snapshots that were added: Size,
\* GetHistory and GetLatest give the last min(N, C) added snapshots, each with
\* the content it was added with.
C14_ReadsAreIndependentCopies ==
    LET kept == LastOf(added, Min(Len(added), maxSize))
        hist == GetHistory(metrics)
    IN  /\ Size(metrics) = Len(kept)
        /\ \A i \in 1..Len(hist) : Deep(hist[i], heap) = kept[i]
        /\ hist # <<>> => Deep(GetLatest(metrics), heap) = kept[Len(kept)]

\* C15: for every sequence of Add and Clear calls, GetLatest returns none
\* exactly when the ring is empty, and otherwise the snapshot of the most
\* recent Add; right after an Add it is that Add's snapshot.
C15_GetLatestIsLastAdded ==
    LET want == IF added = <<>> THEN NoMetric ELSE added[Len(added)]
    IN  /\ GetLatest(metrics) = want
        /\ (GetLatest(metrics) = NoMetric) <=> (Size(metrics) = 0)
        /\ ret.op = "GetLatest" => ret.val = want
        /\ ret.op = "Add" => GetLatest(metrics) = added[Len(added)]

\* C15 witness: after a Clear and two Adds of different snapshots, a
\* GetLatest call has returned the second one.
C15_Witness ==
    /\ cleared
    /\ Len(added) = 2
    /\ added[1] # added[2]
    /\ ret = [op |-> "GetLatest", val |-> added[2]]

\* C16: right after Clear the ring reads as empty (Size 0, GetHistory empty,
\* GetLatest none) whatever it held; the capacity stays the one it was
\* constructed with, and the Adds made since the Clear are retained up to that
\* capacity, the oldest evicted first.
C16_ClearEmptiesKeepsCapacity ==
    /\ ret.op = "Clear" =>
        /\ Size(metrics) = 0
        /\ GetHistory(metrics) = <<>>
        /\ GetLatest(metrics) = NoMetric
    /\ maxSize = NewMaxSize(newArg)
    /\ cleared =>
        /\ Size(metrics) = Min(Len(added), NewMaxSize(newArg))
        /\ GetHistory(metrics) = LastOf(added, Min(Len(added), NewMaxSize(newArg)))

\* C16 witness: a ring of capacity 2 that was cleared while it held entries
\* has since taken three Adds and holds the last two.
C16_Witness ==
    /\ cleared
    /\ newArg = 2
    /\ Len(added) = 3
    /\ Size(metrics) = 2
    /\ added[1] # added[3]

\* C17: NewMetricsStorage(n) gives capacity 60 for n <= 0 and capacity n for
\* n > 0, and the ring it returns is empty.
C17_ConstructorCapacity ==
    /\ newArg <= 0 => maxSize = 60
    /\ newArg > 0 => maxSize = newArg
    /\ ret = NoRet => Size(metrics) = 0 /\ GetLatest(metrics) = NoMetric

\* C17 witness: a ring constructed with 0 has capacity 60 and has kept all of
\* the three snapshots added to it.
C17_Witness ==
    /\ newArg = 0
    /\ maxSize = 60
    /\ Len(added) = 3
    /\ Size(metrics) = 3

\* C18: the hub's handling of an Unregister for a connection that is not in
\* the subscriber set changes neither the set nor any connection (nothing is
\* closed); for a connection in the set it removes it and closes it once; and
\* in every state Unregister applied twice gives what applying it once gives.
C18_UnregisterIdempotent ==
    /\ [][\A c \in Conns : (hPc[c] = "sendUnregister" /\ hPc'[c] = "done") =>
            IF c \in clients
            THEN /\ clients' = clients \ {c}
                 /\ closed' = [closed EXCEPT ![c] = closed[c] + 1]
            ELSE /\ clients' = clients
                 /\ closed' = closed]_vars
    /\ [](\A c \in Conns :
            LET once == Unregister(clients, closed, c)
            IN  /\ Unregister(once.clients, once.closed, c) = once
                /\ c \notin once.clients)

\* C18 witness: a connection was removed and closed by a failed broadcast
\* write, and its handler's Unregister has since been handled: it was closed
\* once, not twice.
C18_Witness ==
    \E c \in Conns :
        /\ hPc[c] = "done"
        /\ (WritesOf(c, "live") \cap FailedWrites(c)) # {}
        /\ c \notin clients
        /\ closed[c] = 1

\* C19: the snapshots entered the ring in the order they were sampled, one
\* per processed tick and none missing; the snapshots the hub was handed are
\* the same sequence, at most the newest still waiting to be handed over; and
\* every snapshot written in a broadcast had been added to the ring before.
C19_RingOrderIsSamplingOrder ==
    /\ added = [i \in 1..Len(added) |-> SystemMetrics(i)]
    /\ clock = Len(added) + (IF loopPc = "collect" THEN 1 ELSE 0)
    /\ Len(handed) <= Len(added)
    /\ handed = SubSeq(added, 1, Len(handed))
    /\ Len(added) - Len(handed) = (IF loopPc = "send" THEN 1 ELSE 0)
    /\ GetHistory(metrics) = LastOf(added, Min(Len(added), maxSize))
    /\ \A c \in Conns : \A i \in WritesOf(c, "live") :
            \E k \in 1..Len(handed) : handed[k].Timestamp = wrote[c][i].ts

\* C19 witness: three ticks were processed; the third snapshot is in the ring
\* and waits to be handed to the hub, the second was broadcast to a subscriber.
C19_Witness ==
    /\ Len(added) = 3
    /\ Len(handed) = 2
    /\ loopPc = "send"
    /\ \E c \in Conns : \E i \in WritesOf(c, "live") : wrote[c][i].ts = 2

\* The number of Collect calls that returned without an error.
Successes(errs) == Cardinality({i \in 1..Len(errs) : ~errs[i]})

\* C20: a tick whose Collect returns an error leaves the ring as it was,
\* hands nothing to the hub, starts no second Collect and puts the loop back
\* in its select; a Collect is started only by consuming a tick.  So the ring
\* has taken exactly one Add per successful Collect: two failures followed by
\* one success make Size 1 after three ticks.
C20_FailedSampleSkipped ==
    /\ [][(loopPc = "collect" /\ loopPc' # "collect" /\ collectErrs'[Len(collectErrs')]) =>
            /\ metrics' = metrics
            /\ handed' = handed
            /\ clock' = clock
            /\ loopPc' = "select"]_vars
    /\ [][clock' # clock => (tickReady /\ ~tickReady' /\ clock' = clock + 1)]_vars
    /\ [](/\ Len(added) = Successes(collectErrs)
          /\ Size(metrics) = Min(Successes(collectErrs), maxSize)
          /\ Len(handed) <= Successes(collectErrs)
          /\ Len(collectErrs) = clock - (IF loopPc = "collect" THEN 1 ELSE 0)
          /\ loopPc = "send" => ~collectErrs[Len(collectErrs)])

\* C20 witness: three ticks were processed, the first two Collect calls
\* failed and the third succeeded; the ring holds one snapshot.
C20_Witness ==
    /\ collectErrs = <<TRUE, TRUE, FALSE>>
    /\ clock = 3
    /\ Size(metrics) = 1
    /\ handed = <<>>

\* C21: while the loop runs (cancel() not called), every interval that has
\* elapsed adds its snapshot to the ring: once k intervals have elapsed the
\* ring comes to hold min(k, capacity) snapshots, and the history is non-empty
\* after the first interval.
C21_OneSnapshotPerInterval ==
    \A k \in 1..MaxSamples :
        (elapsed = k /\ ~cancelled) ~> (cancelled \/ Size(metrics) >= Min(k, maxSize))

\* The hub takes a value from s.register, s.unregister or s.broadcast in this step.
HubReceives ==
    \/ \E c \in Conns : hPc[c] = "sendRegister" /\ hPc'[c] = "reading"
    \/ \E c \in Conns : hPc[c] = "sendUnregister" /\ hPc'[c] = "done"
    \/ loopPc = "send" /\ loopPc' = "select"

\* C22: the hub takes a register, unregister or broadcast request only while
\* it is handling none (so no two of them overlap: a replay and a fanout are
\* never under way together), and the subscriber set changes only in a step
\* of the hub: when it takes a request or when one of its broadcast writes
\* returns; handlers and the loop never touch it.
C22_HubHandlesOneAtATime ==
    /\ [][HubReceives => (hubPc = "select" /\ hubHist = <<>> /\ hubTodo = <<>>)]_vars
    /\ [][clients' # clients =>
            \/ HubReceives
            \/ hubPc = "fanout" /\ \E c \in Conns : wrote'[c] # wrote[c]]_vars
    /\ [][(\E c \in Conns : wrote'[c] # wrote[c]) => hubPc \in {"replay", "fanout"}]_vars
    /\ [](/\ hubPc = "replay" => hubTodo = <<>>
          /\ hubPc = "fanout" => hubHist = <<>>
          /\ hubPc \in {"select", "off"} => (hubHist = <<>> /\ hubTodo = <<>>))

\* C22 witness: the hub is in the middle of a fanout while one handler waits
\* to register, another waits to unregister and the loop waits to broadcast.
C22_Witness ==
    /\ hubPc = "fanout"
    /\ \E c \in Conns : hPc[c] = "sendRegister"
    /\ \E c \in Conns : hPc[c] = "sendUnregister"
    /\ loopPc = "send"

\* The stage of a connection's life, from the handler's position pc, the
\* subscriber set cs and the hub's replay target: 0 Connecting (not yet
\* registered), 1 Registered/Replaying, 2 Live, 3 Disconnected (out of the
\* set after its registration, or never upgraded).
ConnStage(c, pc, cs, hpc, hcl) ==
    IF c \in cs
    THEN IF hpc = "replay" /\ hcl = c THEN 1 ELSE 2
    ELSE IF pc \in {"idle", "sendRegister"} THEN 0 ELSE 3

\* C23: a connection's stage never goes back (Connecting, then
\* Registered/Replaying, then Live, then Disconnected, which it never leaves);
\* a connection is put into the set only from Connecting, so one that was
\* removed from the set or closed is never in the set again.
C23_ConnectionLifeOneWay ==
    /\ [][\A c \in Conns :
            /\ ConnStage(c, hPc'[c], clients', hubPc', hubClient')
                    >= ConnStage(c, hPc[c], clients, hubPc, hubClient)
            /\ (c \notin clients /\ c \in clients') =>
                    (ConnStage(c, hPc[c], clients, hubPc, hubClient) = 0 /\ closed[c] = 0)
            /\ (c \in clients /\ c \notin clients') => hPc[c] \in {"reading", "sendUnregister"}
            /\ closed[c] > 0 => c \notin clients']_vars
    /\ [](\A c \in Conns : closed[c] > 0 => c \notin clients)

\* C23 witness: a connection went through every stage: it was replayed to,
\* received a live broadcast, and was then unregistered and closed.
C23_Witness ==
    \E c \in Conns :
        /\ hPc[c] = "done"
        /\ closed[c] = 1
        /\ c \notin clients
        /\ \E i \in WritesOf(c, "replay") : \E j \in WritesOf(c, "live") :
                i < j /\ wrote[c][i].ok /\ wrote[c][j].ok

\* C24: a request to /api/metrics or /api/history changes neither the ring
\* nor what the hub was handed nor what any subscriber was written nor the
\* subscriber set; the history response is the ring's content, oldest first;
\* and the ring changes only in the loop's Add of the snapshot it collected.
C24_PullEndpointsReadOnly ==
    /\ [][ret' # ret =>
            /\ metrics' = metrics
            /\ added' = added
            /\ handed' = handed
            /\ wrote' = wrote
            /\ clients' = clients
            /\ loopPc' = loopPc
            /\ ret'.op = "history" =>
                    ret'.val = LastOf(added, Min(Len(added), maxSize))]_vars
    /\ [][metrics' # metrics =>
            /\ loopPc = "collect"
            /\ loopPc' = "send"
            /\ metrics' = Add(metrics, maxSize, loopMetric)]_vars

\* C24 witness: a history request was answered with the two newest of three
\* snapshots while a subscriber that has received a broadcast is registered,
\* and nothing but the three loop samples has entered the ring.
C24_Witness ==
    /\ ret.op = "history"
    /\ Len(added) = 3
    /\ ret.val = <<SystemMetrics(2), SystemMetrics(3)>>
    /\ \E c \in clients : \E i \in WritesOf(c, "live") : wrote[c][i].ok

\* C25: whichever of its sub-collectors fail, Collect returns no error and a
\* snapshot in which exactly the fields of the failing ones are left at their
\* zero value; the loop therefore stores the snapshot in the ring and goes on
\* to send it to the hub, for every Collect call.
C25_CollectNeverFails ==
    /\ \A i \in 1..Len(collectErrs) : ~collectErrs[i]
    /\ Len(added) = Len(collectErrs)
    /\ Len(added) - Len(handed) = (IF loopPc = "send" THEN 1 ELSE 0)
    /\ probe # NoProbe =>
        /\ ~probe.out.err
        /\ \A x \in Subs :
                probe.out.metrics.sub[x] = (IF x \in probe.failing THEN ZeroValue ELSE Filled)
        /\ added # <<>>
        /\ probe.out.metrics.Timestamp = added[Len(added)].Timestamp

\* C25 witness: every sub-collector failed in the second Collect call; its
\* snapshot is in the ring all the same and the hub has taken it.
C25_Witness ==
    /\ probe.failing = Subs
    /\ probe.out.metrics.Timestamp = 2
    /\ Len(added) = 2
    /\ Len(handed) = 2

\* C26: with a non-positive -interval the loop never takes a tick, and
\* turning the value down does not bring the process down from inside the
\* loop goroutine: the server goes on running.
C26_BadIntervalRejected ==
    interval <= 0 =>
        /\ clock = 0
        /\ ~tickReady
        /\ loopPc # "panic"
        /\ ~stopped

\* C27: with the hub running and its writes returning, a registered
\* connection whose handler's read has failed is eventually out of the
\* subscriber set and closed, and its handler has left; the handler leaves
\* only in the step in which the hub takes its unregister request.
C27_ReadFailureUnregisters ==
    /\ \A c \in Conns :
            (hPc[c] = "sendUnregister") ~>
                (hPc[c] = "done" /\ c \notin clients /\ closed[c] = 1)
    /\ [][\A c \in Conns : (hPc[c] # "done" /\ hPc'[c] = "done" /\ hPc[c] # "idle") =>
            /\ hPc[c] = "sendUnregister"
            /\ hubPc = "select"
            /\ c \notin clients'
            /\ closed'[c] = 1]_vars

\* C27 witness: a connection that was still registered when its handler's
\* read failed has been unregistered and closed by the hub.
C27_Witness ==
    \E c \in Conns :
        /\ hPc[c] = "done"
        /\ closed[c] = 1
        /\ c \notin clients
        /\ FailedWrites(c) = {}
        /\ wrote[c] # <<>>

\* ---- C28
\* The Timestamp of the newest snapshot in the ring when c's registration was
\* handled (0: the ring was empty, nothing had been added yet).
RegStamp(c) == IF regRing[c] = <<>> THEN 0 ELSE regRing[c][Len(regRing[c])].Timestamp

\* The snapshots subscriber c is owed: those in the ring when its registration
\* was handled and those added to the ring since.
Owed(c) ==
    {regRing[c][i].Timestamp : i \in 1..Len(regRing[c])}
        \cup {added[i].Timestamp : i \in {j \in 1..Len(added) : added[j].Timestamp > RegStamp(c)}}

\* The snapshots whose write to c is under way: the rest of c's replay, the
\* snapshot the loop is handing over, the broadcast whose range has not
\* reached c yet.
Underway(c) ==
    (IF hubPc = "replay" /\ hubClient = c
        THEN {hubHist[i].Timestamp : i \in 1..Len(hubHist)} ELSE {})
    \cup (IF loopPc = "send" THEN {loopMetric.Timestamp} ELSE {})
    \cup (IF hubPc = "fanout" /\ \E i \in 1..Len(hubTodo) : hubTodo[i] = c
        THEN {hubMetric.Timestamp} ELSE {})

\* C28: a subscriber in the map none of whose writes failed has been written
\* every snapshot that was in the ring when its registration was handled and
\* every snapshot added since, except those whose write is under way; in
\* particular nothing falls between the replay and the first live broadcast.
C28_SubscriberMissesNothing ==
    \A c \in clients :
        FailedWrites(c) = {} =>
            \A t \in Owed(c) \ Underway(c) : Deliveries(c, t) # {}

\* A subscriber registered between an Add and its broadcast, with an older
\* snapshot in the ring too, has got the replay and a later live snapshot.
C28_Witness ==
    \E c \in clients :
        /\ FailedWrites(c) = {}
        /\ Len(regRing[c]) = 2
        /\ \E i \in WritesOf(c, "live") : wrote[c][i].ts = RegStamp(c)
        /\ Underway(c) = {}
        /\ Cardinality(Owed(c)) = 3
        /\ \E i \in WritesOf(c, "live") : wrote[c][i].ts > RegStamp(c)

\* ---- C29
\* C29: the server closes no connection twice; a connection in the map has not
\* been closed by the server; a hub step that takes a connection out of the
\* map (the unregister case, a failed broadcast write) calls its Close in that
\* same step, and the server calls Close in no other step.
C29_ClosedOnceWithRemoval ==
    /\ [](\A c \in Conns : closed[c] <= 1 /\ (c \in clients => closed[c] = 0))
    /\ [][\A c \in Conns :
            (c \in clients /\ c \notin clients') <=> (closed[c] = 0 /\ closed'[c] = 1)]_vars

\* Both ways out of the map were taken: connection 1 by a failed broadcast
\* write followed by its handler's unregister, connection 2 by its handler's
\* unregister alone.
C29_Witness ==
    /\ clients = {}
    /\ hPc = [c \in Conns |-> "done"]
    /\ closed = [c \in Conns |-> 1]
    /\ (WritesOf(1, "live") \cap FailedWrites(1)) # {}
    /\ FailedWrites(2) = {}
    /\ wrote[2] # <<>>

\* ---- C30
\* The snapshots in the ring that the hub has not received from s.broadcast.
NotAccepted ==
    {i \in 1..Len(metrics) : \A k \in 1..Len(handed) : handed[k] # metrics[i]}

\* C30: the ring never holds more than one snapshot the hub has not received,
\* and holds one only while the loop is blocked in its send, where it is the
\* ring's newest; the loop starts a Collect or makes an Add only when the hub
\* has received every snapshot added before.
C30_SynchronousHandOff ==
    /\ [](/\ Cardinality(NotAccepted) <= 1
          /\ NotAccepted # {} => (loopPc = "send" /\ NotAccepted = {Len(metrics)})
          /\ loopPc = "collect" => handed = added)
    /\ [][(added' # added \/ clock' # clock) => handed = added]_vars

\* The loop is blocked in the send of the second snapshot, which is in the
\* ring, while the hub is in the middle of the broadcast of the first and the
\* next tick is already waiting.
C30_Witness ==
    /\ loopPc = "send"
    /\ hubPc = "fanout"
    /\ tickReady
    /\ Len(added) = 2
    /\ hubMetric = SystemMetrics(1)
    /\ Len(metrics) = 2
    /\ NotAccepted = {2}

\* ---- C31
\* Handler c is blocked in a send to the hub.
SendBlocked(c) == hPc[c] \in {"sendRegister", "sendUnregister"}

\* C31: with the hub goroutine running and its writes returning, every send
\* blocked on s.register, s.unregister or s.broadcast is received by the hub.
\* No handler and no loop stays blocked in its send for ever (each is out of
\* its send again and again), and the only way out of a blocked send is the
\* hub's receive in its select: the registering handler goes on to its read
\* loop with the connection in the map, the unregistering handler ends with
\* the connection out of the map, the loop is back in its select with the
\* snapshot handed over.
C31_ChannelSendsAccepted ==
    /\ \A c \in Conns : []<>(~SendBlocked(c))
    /\ []<>(loopPc # "send")
    /\ [][/\ \A c \in Conns :
                (hPc[c] = "sendRegister" /\ hPc'[c] # hPc[c]) =>
                    (hubPc = "select" /\ hPc'[c] = "reading" /\ c \in clients')
          /\ \A c \in Conns :
                (hPc[c] = "sendUnregister" /\ hPc'[c] # hPc[c]) =>
                    (hubPc = "select" /\ hPc'[c] = "done" /\ c \notin clients')
          /\ (loopPc = "send" /\ loopPc' # loopPc) =>
                (hubPc = "select" /\ loopPc' = "select" /\ handed' = added)]_vars

\* A send is blocked on each of the three channels at once while the hub is
\* in the middle of a broadcast, having received a registration and a
\* snapshot before.
C31_Witness ==
    /\ hubPc = "fanout"
    /\ loopPc = "send"
    /\ hPc[1] = "sendUnregister"
    /\ hPc[2] = "sendRegister"
    /\ 1 \in clients
    /\ Len(handed) = 1

\* ---- C32
\* The goroutines in the middle of the store to c.lastCollectTime.
Storing == {g \in Collectors : calls[g].pc = "storing"}

\* C32: no two goroutines are inside the store to the collector's
\* lastCollectTime at once, and whenever no store is under way the field
\* holds a time that one Collect call stored whole.
C32_CollectorWritesSynchronized ==
    /\ Cardinality(Storing) <= 1
    /\ Storing = {} => lastCollectTime.wall = lastCollectTime.ext

====
